---------------------------- MODULE Spec2Model ----------------------------
(***************************************************************************)
(* Model of jwreftools/niriss/niriss_reftools.py:                          *)
(*   dict_from_file   - the line parser of trace configuration files       *)
(*   split_order_info - the per-beam grouping of the parsed keys           *)
(* Python strings are modelled as sequences of one-character strings, so   *)
(* that the regular expressions, str.split, str.replace, str.strip and the *)
(* substring tests of the source are computed character by character.      *)
(***************************************************************************)
EXTENDS Integers, Sequences, FiniteSets, TLC

VARIABLES lines, lineno, key, value, vallist, content, pstate, perror,
          keydict, kidx, beams, rdict, bidx, zero, one, gstate, gerror

pvars == <<lines, lineno, key, value, vallist, content, pstate, perror>>
gvars == <<keydict, kidx, beams, rdict, bidx, zero, one, gstate, gerror>>
vars == <<lines, lineno, key, value, vallist, content, pstate, perror,
          keydict, kidx, beams, rdict, bidx, zero, one, gstate, gerror>>

(***************************************************************************)
(* Bounds of the model.                                                    *)
(***************************************************************************)
MaxLines == 2
MaxToks == 2
MaxKeys == 4

(***************************************************************************)
(* Character classes of Python's re module (ASCII part).                   *)
(***************************************************************************)
UpperSeq == <<"A","B","C","D","E","F","G","H","I","J","K","L","M",
              "N","O","P","Q","R","S","T","U","V","W","X","Y","Z">>
LowerSeq == <<"a","b","c","d","e","f","g","h","i","j","k","l","m",
              "n","o","p","q","r","s","t","u","v","w","x","y","z">>
DigitSeq == <<"0","1","2","3","4","5","6","7","8","9">>

Range(s) == {s[i] : i \in 1..Len(s)}

\* F applied to the value of x, x being evaluated once
Let(x, F(_)) == CHOOSE r \in {F(v) : v \in {x}} : TRUE

IsUpper(c) == c \in Range(UpperSeq)
IsLower(c) == c \in Range(LowerSeq)
IsLetter(c) == IsUpper(c) \/ IsLower(c)
IsDigit(c) == c \in Range(DigitSeq)
IsAlnum(c) == IsLetter(c) \/ IsDigit(c)
IsWord(c) == IsAlnum(c) \/ c = "_"
IsSpace(c) == c \in {" ", "\t", "\n", "\r", "\f"}

DigitVal(c) == (CHOOSE i \in 1..10 : DigitSeq[i] = c) - 1

\* str.upper() of one character
UpperChar(c) ==
    IF IsLower(c) THEN UpperSeq[CHOOSE i \in 1..26 : LowerSeq[i] = c] ELSE c

\* str.upper()
Upper(s) == [i \in 1..Len(s) |-> UpperChar(s[i])]

(***************************************************************************)
(* String helpers: substring test, str.split(sep), str.replace(old, ""),   *)
(* str.strip().                                                            *)
(***************************************************************************)
\* s[i..] starts with pat
StartsAt(s, i, pat) ==
    /\ i + Len(pat) - 1 <= Len(s)
    /\ \A j \in 1..Len(pat) : s[i + j - 1] = pat[j]

\* Python's  sub in s
Contains(sub, s) == \E i \in 1..(Len(s) + 1) : StartsAt(s, i, sub)

RECURSIVE SplitOnFrom(_, _, _, _)
SplitOnFrom(s, c, i, start) ==
    IF i > Len(s) THEN <<SubSeq(s, start, Len(s))>>
    ELSE IF s[i] = c
         THEN <<SubSeq(s, start, i - 1)>> \o SplitOnFrom(s, c, i + 1, i + 1)
         ELSE SplitOnFrom(s, c, i + 1, start)

\* s.split(c) for a one-character separator c
SplitOn(s, c) == SplitOnFrom(s, c, 1, 1)

RECURSIVE RemoveAllFrom(_, _, _)
RemoveAllFrom(s, pat, i) ==
    IF i > Len(s) THEN <<>>
    ELSE IF StartsAt(s, i, pat)
         THEN RemoveAllFrom(s, pat, i + Len(pat))
         ELSE <<s[i]>> \o RemoveAllFrom(s, pat, i + 1)

\* s.replace(pat, ""): every non-overlapping occurrence, left to right
RemoveAll(s, pat) == IF Len(pat) = 0 THEN s ELSE RemoveAllFrom(s, pat, 1)

RECURSIVE LStripIdx(_, _)
LStripIdx(s, i) ==
    IF i <= Len(s) /\ IsSpace(s[i]) THEN LStripIdx(s, i + 1) ELSE i

RECURSIVE RStripIdx(_, _)
RStripIdx(s, i) ==
    IF i >= 1 /\ IsSpace(s[i]) THEN RStripIdx(s, i - 1) ELSE i

\* str.strip()
Strip(s) == SubSeq(s, LStripIdx(s, 1), RStripIdx(s, Len(s)))

(***************************************************************************)
(* The regular expressions of dict_from_file.                              *)
(***************************************************************************)
\* empty = "(^\s*$)" used with match
EmptyMatch(line) == \A i \in 1..Len(line) : IsSpace(line[i])

\* a letters test that looks past leading white space
LettersMatchStripped(line) ==
    LStripIdx(line, 1) <= Len(line) /\ IsLetter(line[LStripIdx(line, 1)])

\* letters = "(^[a-zA-Z])" used with match
LettersMatch(line) == Len(line) >= 1 /\ IsLetter(line[1])

\* the separator  \s+|(?<!\d)[,](?!\d)  matches a comma at position i
CommaSep(s, i) ==
    /\ s[i] = ","
    /\ (i = 1 \/ ~IsDigit(s[i - 1]))
    /\ (i = Len(s) \/ ~IsDigit(s[i + 1]))

RECURSIVE SkipSpace(_, _)
SkipSpace(s, i) ==
    IF i <= Len(s) /\ IsSpace(s[i]) THEN SkipSpace(s, i + 1) ELSE i

RECURSIVE ReSplitFrom(_, _, _, _)
ReSplitFrom(s, i, start, n) ==
    IF i > Len(s) \/ n = 0 THEN <<SubSeq(s, start, Len(s))>>
    ELSE IF IsSpace(s[i])
         THEN Let(SkipSpace(s, i), LAMBDA j :
                  <<SubSeq(s, start, i - 1)>> \o ReSplitFrom(s, j, j, n - 1))
         ELSE IF CommaSep(s, i)
              THEN <<SubSeq(s, start, i - 1)>>
                   \o ReSplitFrom(s, i + 1, i + 1, n - 1)
              ELSE ReSplitFrom(s, i + 1, start, n)

\* re.split(token, s, maxsplit=n)
ReSplit(s, n) == Let(s, LAMBDA v : ReSplitFrom(v, 1, 1, n))

\* maxsplit of the re.split call
MaxSplit == 10

SkipSign(s, i) == IF i <= Len(s) /\ s[i] \in {"+", "-"} THEN i + 1 ELSE i

RECURSIVE SkipDigits(_, _)
SkipDigits(s, i) ==
    IF i <= Len(s) /\ IsDigit(s[i]) THEN SkipDigits(s, i + 1) ELSE i

SkipDot(s, i) == IF i <= Len(s) /\ s[i] = "." THEN i + 1 ELSE i

\* the pieces of a token along the numbers pattern
\*   (^(?:[+\-])?(?:\d*)(?:\.)?(?:\d*)?(?:[eE][+\-]?\d*$)?)
NumParts(tok) ==
    Let(SkipSign(tok, 1), LAMBDA p1 :
    Let(SkipDigits(tok, p1), LAMBDA p2 :
    Let(SkipDot(tok, p2), LAMBDA p3 :
    Let(SkipDigits(tok, p3), LAMBDA p4 :
    Let(p4 <= Len(tok) /\ tok[p4] \in {"e", "E"}, LAMBDA hasExp :
    Let(IF hasExp THEN SkipSign(tok, p4 + 1) ELSE p4, LAMBDA p5 :
    Let(IF hasExp THEN SkipDigits(tok, p5) ELSE p4, LAMBDA p6 :
        [neg     |-> p1 = 2 /\ tok[1] = "-",
         intd    |-> SubSeq(tok, p1, p2 - 1),
         hasDot  |-> p3 > p2,
         fracd   |-> SubSeq(tok, p3, p4 - 1),
         hasExp  |-> hasExp,
         expSign |-> hasExp /\ p5 > p4 + 1,
         expNeg  |-> hasExp /\ p5 > p4 + 1 /\ tok[p4 + 1] = "-",
         expd    |-> SubSeq(tok, p5, p6 - 1),
         end     |-> p6])))))))

\* numbers.fullmatch(tok)
NumbersFullmatch(tok) == NumParts(tok).end > Len(tok)

(***************************************************************************)
(* eval() of a token that matched the numbers pattern: an int, a float or  *)
(* an exception.  A float is kept as the exact decimal m * 10^e with m not *)
(* divisible by 10.                                                        *)
(***************************************************************************)
RECURSIVE DigitsVal(_)
DigitsVal(ds) ==
    IF Len(ds) = 0 THEN 0
    ELSE 10 * DigitsVal(SubSeq(ds, 1, Len(ds) - 1)) + DigitVal(ds[Len(ds)])

AllZero(ds) == \A i \in 1..Len(ds) : ds[i] = "0"

RECURSIVE NormFloat(_, _)
NormFloat(m, e) ==
    IF m = 0 THEN [t |-> "float", m |-> 0, e |-> 0]
    ELSE IF m % 10 = 0 THEN NormFloat(m \div 10, e + 1)
         ELSE [t |-> "float", m |-> m, e |-> e]

NoNum == [t |-> "none", m |-> 0, e |-> 0]
Raise(kind) == [exc |-> kind, num |-> NoNum]
Number(n) == [exc |-> "none", num |-> n]

Signed(neg, n) == IF neg THEN 0 - n ELSE n

\* a decimal integer literal may not have leading zeros unless it is zero
BadIntLiteral(ds) == Len(ds) > 1 /\ ds[1] = "0" /\ ~AllZero(ds)

\* eval of a token whose pieces along the numbers pattern are p
EvalParts(p) ==
    IF ~p.hasExp
    THEN IF Len(p.intd \o p.fracd) = 0 THEN Raise("SyntaxError")
         ELSE IF ~p.hasDot
              THEN IF BadIntLiteral(p.intd) THEN Raise("SyntaxError")
                   ELSE Number([t |-> "int",
                                m |-> Signed(p.neg, DigitsVal(p.intd)),
                                e |-> 0])
              ELSE Number(NormFloat(Signed(p.neg, DigitsVal(p.intd \o p.fracd)),
                                    0 - Len(p.fracd)))
    ELSE IF Len(p.intd \o p.fracd) = 0
         THEN IF p.hasDot THEN Raise("SyntaxError")
              ELSE IF p.expSign
                   THEN IF Len(p.expd) = 0 \/ BadIntLiteral(p.expd)
                        THEN Raise("SyntaxError")
                        ELSE Raise("NameError")
                   ELSE Raise("NameError")
         ELSE IF Len(p.expd) = 0 THEN Raise("SyntaxError")
              ELSE Number(NormFloat(Signed(p.neg, DigitsVal(p.intd \o p.fracd)),
                                    Signed(p.expNeg, DigitsVal(p.expd))
                                    - Len(p.fracd)))

Eval(tok) == Let(NumParts(tok), EvalParts)

(***************************************************************************)
(* dict_from_file: the body of the loop over the lines, for one line.      *)
(* None is the empty sequence; value is <<>> or a one-element sequence.    *)
(***************************************************************************)
None == <<>>

\* the loop  for v in vals  from index i on, vallist being acc
RECURSIVE AppendVals(_, _, _)
AppendVals(vals, i, acc) ==
    IF i > Len(vals) THEN [vallist |-> acc, exc |-> "none"]
    ELSE IF NumbersFullmatch(vals[i])
         THEN Let(Eval(vals[i]), LAMBDA r :
                  IF r.exc = "none"
                  THEN Let(Append(acc, r.num), LAMBDA acc1 :
                               AppendVals(vals, i + 1, acc1))
                  ELSE [vallist |-> acc, exc |-> r.exc])
         ELSE [vallist |-> acc, exc |-> "ValueError"]

\* lines 251-263: key, value, vallist and the exception, given pair
ParsePair(pair) ==
    IF Len(pair) = 2
    THEN IF NumbersFullmatch(pair[2])
         THEN Let(Eval(pair[2]), LAMBDA r :
                  IF r.exc = "none"
                  THEN [key |-> pair[1], value |-> <<r.num>>,
                        vallist |-> <<>>, exc |-> "none"]
                  ELSE [key |-> pair[1], value |-> None,
                        vallist |-> <<>>, exc |-> r.exc])
         ELSE [key |-> pair[1], value |-> None,
               vallist |-> <<>>, exc |-> "none"]
    ELSE Let(AppendVals(Tail(pair), 1, <<>>), LAMBDA r :
                 [key |-> pair[1], value |-> None,
                  vallist |-> r.vallist, exc |-> r.exc])

\* lines 245-263: the locals key, value, vallist after the line, and the
\* exception the line raises, if any
ParseLine(line) ==
    IF ~EmptyMatch(line) /\ LettersMatch(line)
    THEN Let(ReSplit(Strip(line), MaxSplit), ParsePair)
    ELSE [key |-> None, value |-> None, vallist |-> <<>>, exc |-> "none"]

S_FILTER == <<"F","I","L","T","E","R">>
S_SENS == <<"S","E","N","S">>

\* an exclusion test that knows FILTER only
IsFilterOnly(k) == Contains(S_FILTER, k)

\* line 266, negated:  "FILTER" in key  or  "SENS" in key
IsFilterOrSens(k) == Contains(S_FILTER, k) \/ Contains(S_SENS, k)

\* a store that keeps a single value as a one-element list
StoreAsList(c, k, val, vl) ==
    IF k # None /\ ~(Contains(S_FILTER, k) \/ Contains(S_SENS, k))
    THEN [x \in (DOMAIN c) \cup {k} |->
             IF x = k
             THEN IF val = None
                  THEN [kind |-> "list", nums |-> vl]
                  ELSE [kind |-> "list", nums |-> val]
             ELSE c[x]]
    ELSE c

\* lines 265-272: content after the line's key/value are known
Store(c, k, val, vl) ==
    IF k # None /\ ~IsFilterOrSens(k)
    THEN [x \in (DOMAIN c) \cup {k} |->
             IF x = k
             THEN IF val = None
                  THEN [kind |-> "list", nums |-> vl]
                  ELSE [kind |-> "scalar", nums |-> val]
             ELSE c[x]]
    ELSE c

NoError == [kind |-> "none", key |-> None]

\* the exception as the caller sees it; only the ValueError names the key
Exception(kind, k) ==
    IF kind = "ValueError" THEN [kind |-> kind, key |-> k]
    ELSE [kind |-> kind, key |-> None]

EmptyDict == [x \in {} |-> 0]

(***************************************************************************)
(* The configuration files the parser is run on: lines made of the key KEY *)
(* and up to MaxToks value tokens, and a set of further lines.             *)
(***************************************************************************)
NL == <<"\n">>
SP == <<" ">>
K_KEY == <<"K","E","Y">>
T_1 == <<"1">>
T_3p5 == <<"3",".","5">>
T_abc == <<"a","b","c">>

Tokens == {T_3p5, T_abc}

TokSeqs == UNION {[1..n -> Tokens] : n \in 0..MaxToks}

RECURSIVE JoinToks(_)
JoinToks(ts) == IF Len(ts) = 0 THEN <<>> ELSE SP \o Head(ts) \o JoinToks(Tail(ts))

KeyLines == {K_KEY \o JoinToks(ts) \o NL : ts \in TokSeqs}

L_blank == NL
L_spaces == <<" "," ","\n">>
L_comment == <<"#"," ","K","E","Y"," ","1","\n">>
L_digit == <<"1","K"," ","2","\n">>
L_indent == <<" "," ","K","E","Y"," ","1","\n">>
L_filter_l == <<"f","i","l","t","e","r","_","A"," ","1","\n">>
L_Sens_m == <<"S","e","n","s","_","B"," ","2","\n">>
L_FILTER == <<"F","I","L","T","E","R"," ","1","\n">>
L_XSENS == <<"X","S","E","N","S","_","A"," ","3",".","5"," ","1","\n">>
L_int == <<"K","E","Y"," ","1","\n">>
L_int_float == <<"K","E","Y"," ","1"," ","3",".","5","\n">>
L_ints == <<"K","E","Y"," ","1"," ","2"," ","3","\n">>
L_dotabc == <<"K","E","Y"," ","."," ","a","b","c","\n">>
L_comma == <<"K","E","Y",",","-","2","\n">>
L_exp == <<"K","E","Y","\t","1","e","5","\n">>
L_long == K_KEY \o JoinToks([i \in 1..(MaxSplit + 1) |-> T_1]) \o NL

ExtraLines == {L_blank, L_spaces, L_comment, L_digit, L_indent,
               L_filter_l, L_Sens_m, L_FILTER, L_XSENS, L_int, L_int_float,
               L_ints, L_dotabc, L_comma, L_exp, L_long}

Lines == KeyLines \cup ExtraLines

Files == UNION {[1..n -> Lines] : n \in 0..MaxLines}

(***************************************************************************)
(* dict_from_file as a state machine: lines is the result of readlines(),  *)
(* lineno the number of lines the loop has consumed.                       *)
(***************************************************************************)
PIdle ==
    /\ lines = <<>> /\ lineno = 0 /\ key = None /\ value = None
    /\ vallist = <<>> /\ content = EmptyDict /\ pstate = "idle"
    /\ perror = NoError

GIdle ==
    /\ keydict = <<>> /\ kidx = 0 /\ beams = <<>> /\ rdict = <<>>
    /\ bidx = 0 /\ zero = 0 /\ one = 0 /\ gstate = "idle" /\ gerror = NoError

InitParse ==
    /\ lines \in Files
    /\ lineno = 0
    /\ key = None /\ value = None /\ vallist = <<>>
    /\ content = EmptyDict
    /\ pstate = "reading"
    /\ perror = NoError
    /\ GIdle

\* one iteration of  for line in lines  (lines 244-272)
ReadLine ==
    /\ pstate = "reading"
    /\ lineno < Len(lines)
    /\ \E o \in {ParseLine(lines[lineno + 1])} :
          /\ lineno' = lineno + 1
          /\ key' = o.key
          /\ value' = o.value
          /\ vallist' = o.vallist
          /\ IF o.exc # "none"
             THEN /\ pstate' = "error"
                  /\ perror' = Exception(o.exc, o.key)
                  /\ content' = content
             ELSE /\ pstate' = "reading"
                  /\ perror' = perror
                  /\ content' = Store(content, o.key, o.value, o.vallist)
    /\ UNCHANGED <<lines, gvars>>

\* return content  (line 273)
ReturnContent ==
    /\ pstate = "reading"
    /\ lineno = Len(lines)
    /\ pstate' = "returned"
    /\ UNCHANGED <<lines, lineno, key, value, vallist, content, perror, gvars>>

NextParse == ReadLine \/ ReturnContent

SpecParse == InitParse /\ [][NextParse]_vars


(***************************************************************************)
(* Python dicts keep insertion order; split_order_info iterates over them. *)
(* A dict is a sequence of entries [k, v] with pairwise distinct k.        *)
(***************************************************************************)
DictKeys(d) == [i \in 1..Len(d) |-> d[i].k]
DictHas(d, k) == \E i \in 1..Len(d) : d[i].k = k
DictGet(d, k) == d[CHOOSE i \in 1..Len(d) : d[i].k = k].v

\* d[k] = v
DictSet(d, k, v) ==
    IF DictHas(d, k)
    THEN [i \in 1..Len(d) |-> IF d[i].k = k THEN [k |-> k, v |-> v] ELSE d[i]]
    ELSE Append(d, [k |-> k, v |-> v])

\* del d[k]
DictDel(d, k) == LET Keep(e) == e.k # k IN SelectSeq(d, Keep)

\* d.update(o)
RECURSIVE DictUpdate(_, _)
DictUpdate(d, o) ==
    IF Len(o) = 0 THEN d
    ELSE DictUpdate(DictSet(d, o[1].k, o[1].v), Tail(o))

(***************************************************************************)
(* The regular expressions of split_order_info.                            *)
(***************************************************************************)
RECURSIVE SkipLetters(_, _)
SkipLetters(s, i) ==
    IF i <= Len(s) /\ IsLetter(s[i]) THEN SkipLetters(s, i + 1) ELSE i

\* a beam pattern without the second underscore
TokenMatchShort(k) ==
    /\ SkipLetters(k, 1) + 1 <= Len(k)
    /\ k[SkipLetters(k, 1)] = "_"
    /\ IsAlnum(k[SkipLetters(k, 1) + 1])

\* token = '^[a-zA-Z]*_[a-zA-Z0-9]{1}_(?:\w)' used with match
TokenMatch(k) ==
    LET p == SkipLetters(k, 1)
    IN /\ p + 3 <= Len(k)
       /\ k[p] = "_"
       /\ IsAlnum(k[p + 1])
       /\ k[p + 2] = "_"
       /\ IsWord(k[p + 3])

\* rangekey = '^[a-zA-Z]*_[0-1]{1,1}$' used with match
RangekeyMatch(k) ==
    LET p == SkipLetters(k, 1)
    IN /\ p + 1 = Len(k)
       /\ k[p] = "_"
       /\ k[p + 1] \in {"0", "1"}

(***************************************************************************)
(* First loop of split_order_info (lines 167-174), for one key.            *)
(***************************************************************************)
\* line 169: b = key.split("_")[1].upper()
BeamOf(k) == Upper(SplitOn(k, "_")[2])

\* line 173: newkey = key.replace("_{}".format(b), "")
NewKey(k) == RemoveAll(k, <<"_">> \o BeamOf(k))

\* lines 168-174: beams and rdict after the key k with value v
PrefetchKey(bs, rd, k, v) ==
    IF TokenMatch(k)
    THEN LET b == BeamOf(k)
             rd1 == IF b \in Range(bs) THEN rd ELSE DictSet(rd, b, <<>>)
         IN [beams |-> IF b \in Range(bs) THEN bs ELSE Append(bs, b),
             rdict |-> DictSet(rd1, b, DictSet(DictGet(rd1, b), NewKey(k), v))]
    ELSE [beams |-> bs, rdict |-> rd]

(***************************************************************************)
(* Second loop of split_order_info (lines 177-205), for one beam.  The     *)
(* locals zero and one live across the beams; Unbound is a local that has  *)
(* not been assigned yet.  A plain value is <<v>>, a range tuple <<z, o>>. *)
(***************************************************************************)
Unbound == 0

\* lines 184-186
RangeKeys(d) == SelectSeq(DictKeys(d), RangekeyMatch)

\* line 188: mlist = [m for m in rkeys if k.split("_")[0] in m]
MList(rkeys, k) ==
    LET Test(m) == Contains(SplitOn(k, "_")[1], m)
    IN SelectSeq(rkeys, Test)

\* lines 191-198: the loop  for mk in mlist  from index j on
RECURSIVE AssignBounds(_, _, _, _, _)
AssignBounds(d, mlist, j, z, o) ==
    IF j > Len(mlist) THEN [zero |-> z, one |-> o, exc |-> "none", key |-> None]
    ELSE LET mk == mlist[j]
             last == mk[Len(mk)]
         IN IF last = "0"
            THEN AssignBounds(d, mlist, j + 1, DictGet(d, mk)[1], o)
            ELSE IF last = "1"
                 THEN AssignBounds(d, mlist, j + 1, z, DictGet(d, mk)[1])
                 ELSE [zero |-> z, one |-> o, exc |-> "ValueError", key |-> mk]

\* lines 187-199: the loop  for k in rkeys  from index i on
RECURSIVE RangeLoop(_, _, _, _, _, _)
RangeLoop(d, rkeys, i, odict, z, o) ==
    IF i > Len(rkeys)
    THEN [odict |-> odict, zero |-> z, one |-> o, exc |-> "none", key |-> None]
    ELSE Let(MList(rkeys, rkeys[i]), LAMBDA mlist :
         Let(SplitOn(mlist[1], "_")[1], LAMBDA root :
             IF DictHas(odict, root)
             THEN RangeLoop(d, rkeys, i + 1, odict, z, o)
             ELSE Let(AssignBounds(d, mlist, 1, z, o), LAMBDA a :
                      IF a.exc # "none"
                      THEN [odict |-> odict, zero |-> a.zero, one |-> a.one,
                            exc |-> a.exc, key |-> a.key]
                      ELSE IF a.zero = Unbound \/ a.one = Unbound
                           THEN [odict |-> odict, zero |-> a.zero, one |-> a.one,
                                 exc |-> "UnboundLocalError", key |-> None]
                           ELSE Let(DictSet(odict, root, <<a.zero, a.one>>),
                                    LAMBDA odict1 :
                                        RangeLoop(d, rkeys, i + 1, odict1,
                                                  a.zero, a.one)))))

\* lines 203-205
RECURSIVE DelKeys(_, _)
DelKeys(d, ks) == IF Len(ks) = 0 THEN d ELSE DelKeys(DictDel(d, ks[1]), Tail(ks))

\* lines 177-205 for the beam dict d: the new d, the locals, the exception
CollapseBeam(d, z, o) ==
    Let(RangeKeys(d), LAMBDA rkeys :
    Let(RangeLoop(d, rkeys, 1, <<>>, z, o), LAMBDA r :
        [d    |-> IF r.exc = "none" THEN DelKeys(DictUpdate(d, r.odict), rkeys)
                  ELSE d,
         zero |-> r.zero, one |-> r.one, exc |-> r.exc, key |-> r.key]))

(***************************************************************************)
(* The flat mappings the grouper is run on: up to MaxKeys distinct keys in *)
(* any order; the i-th entry carries the value i, so that every value of   *)
(* the output can be traced to its key.                                    *)
(***************************************************************************)
K_DISPX_A_0 == <<"D","I","S","P","X","_","A","_","0">>
K_DISPX_A_1 == <<"D","I","S","P","X","_","A","_","1">>
K_DISPY_B_0 == <<"D","I","S","P","Y","_","B","_","0">>
K_X_A_0 == <<"X","_","A","_","0">>
K_X_A_1 == <<"X","_","A","_","1">>
K_TR_a_0 == <<"T","R","_","a","_","0">>
K_TR_A_1 == <<"T","R","_","A","_","1">>
K_A_1_0 == <<"A","_","1","_","0">>
K_A_1_1 == <<"A","_","1","_","1">>
K_X_0 == <<"X","_","0">>

GKeys == {K_DISPX_A_0, K_DISPX_A_1, K_DISPY_B_0, K_X_A_0, K_X_A_1,
          K_TR_a_0, K_TR_A_1, K_A_1_0, K_A_1_1, K_X_0}

Injective(f) == \A i, j \in DOMAIN f : i # j => f[i] # f[j]

KeyOrders == UNION {{f \in [1..n -> GKeys] : Injective(f)} : n \in 0..MaxKeys}

MkDict(f) == [i \in 1..Len(f) |-> [k |-> f[i], v |-> <<i>>]]

(***************************************************************************)
(* split_order_info as a state machine.                                    *)
(***************************************************************************)
InitGroup ==
    /\ keydict \in {MkDict(f) : f \in KeyOrders}
    /\ kidx = 0
    /\ beams = <<>>
    /\ rdict = <<>>
    /\ bidx = 0
    /\ zero = Unbound
    /\ one = Unbound
    /\ gstate = "running"
    /\ gerror = NoError
    /\ PIdle

\* one iteration of  for key in keydict  (lines 167-174)
Prefetch ==
    /\ gstate = "running"
    /\ kidx < Len(keydict)
    /\ \E r \in {PrefetchKey(beams, rdict, keydict[kidx + 1].k,
                               keydict[kidx + 1].v)} :
          /\ beams' = r.beams
          /\ rdict' = r.rdict
    /\ kidx' = kidx + 1
    /\ UNCHANGED <<keydict, bidx, zero, one, gstate, gerror, pvars>>

\* one iteration of  for b, d in rdict.items()  (lines 177-205)
Collapse ==
    /\ gstate = "running"
    /\ kidx = Len(keydict)
    /\ bidx < Len(rdict)
    /\ \E r \in {CollapseBeam(rdict[bidx + 1].v, zero, one)} :
          /\ zero' = r.zero
          /\ one' = r.one
          /\ rdict' = [rdict EXCEPT ![bidx + 1].v = r.d]
          /\ IF r.exc # "none"
             THEN /\ gstate' = "error"
                  /\ gerror' = [kind |-> r.exc, key |-> r.key]
             ELSE UNCHANGED <<gstate, gerror>>
    /\ bidx' = bidx + 1
    /\ UNCHANGED <<keydict, kidx, beams, pvars>>

\* return rdict  (line 207)
ReturnRdict ==
    /\ gstate = "running"
    /\ kidx = Len(keydict)
    /\ bidx = Len(rdict)
    /\ gstate' = "returned"
    /\ UNCHANGED <<keydict, kidx, beams, rdict, bidx, zero, one, gerror, pvars>>

NextGroup == Prefetch \/ Collapse \/ ReturnRdict

SpecGroup == InitGroup /\ [][NextGroup]_vars


(***************************************************************************)
(* Vocabulary of the properties, written from their statements.            *)
(***************************************************************************)
\* the line the loop of dict_from_file consumed last
CurLine == lines[lineno]

\* the line is blank or white space only
BlankLine(line) == \A i \in 1..Len(line) : IsSpace(line[i])

\* the first character of the line is a letter
FirstCharIsLetter(line) == Len(line) >= 1 /\ IsLetter(line[1])

\* the first character that is not white space is a letter
FirstNonSpaceIsLetter(line) ==
    \E i \in 1..Len(line) :
        /\ IsLetter(line[i])
        /\ \A j \in 1..(i - 1) : IsSpace(line[j])

\* the tokens of a line
Toks(line) == ReSplit(Strip(line), MaxSplit)

\* the token denotes a number: it matches the number grammar and is a
\* numeric literal
IsNumber(tok) == NumbersFullmatch(tok) /\ Eval(tok).exc = "none"

\* the token has neither a decimal point nor an exponent
PlainDigits(tok) == \A i \in 1..Len(tok) : tok[i] \notin {".", "e", "E"}

\* the key contains FILTER or SENS in upper case
HasUpperFilterOrSens(k) ==
    \E i \in 1..Len(k) : StartsAt(k, i, S_FILTER) \/ StartsAt(k, i, S_SENS)

\* the key contains FILTER or SENS in any letter case
HasAnyCaseFilterOrSens(k) == HasUpperFilterOrSens(Upper(k))

K_filter_A == <<"f","i","l","t","e","r","_","A">>

(***************************************************************************)
(* Properties of the line parser (specification SpecParse).                *)
(***************************************************************************)
\* C1, as stated: no key of the mapping contains FILTER or SENS in any
\* letter case, at any position.
C1_AnyCase == \A k \in DOMAIN content : ~HasAnyCaseFilterOrSens(k)

\* C1, as amended: no key of the mapping contains the upper-case substring
\* FILTER or SENS, at any position (the test of the code is case-sensitive).
C1_UpperCase == \A k \in DOMAIN content : ~HasUpperFilterOrSens(k)

\* after 'filter_A 1' and 'XSENS_A 3.5 1' the mapping holds filter_A alone
C1_Witness ==
    /\ lineno = 2
    /\ lines[1] = L_filter_l
    /\ lines[2] = L_XSENS
    /\ pstate = "reading"
    /\ DOMAIN content = {K_filter_A}

\* a key line with more than two tokens, one of which after the key does
\* not match the number grammar
Malformed(line) ==
    /\ ~BlankLine(line)
    /\ FirstCharIsLetter(line)
    /\ Len(Toks(line)) > 2
    /\ \E i \in 2..Len(Toks(line)) : ~NumbersFullmatch(Toks(line)[i])

\* C6: a key line with more than two tokens and a token after the key that
\* does not match the number grammar makes the parse fail with the
\* malformed-value error naming its key, and no mapping is returned for a
\* file holding such a line.
C6_MalformedValueError ==
    /\ \A i \in 1..lineno :
           Malformed(lines[i]) =>
               /\ lineno = i
               /\ pstate = "error"
               /\ perror = [kind |-> "ValueError", key |-> Toks(lines[i])[1]]
    /\ pstate = "returned" => \A i \in 1..Len(lines) : ~Malformed(lines[i])

\* the value the mapping must hold for a two-token line
ScalarOf(tok) == [kind |-> "scalar", nums |-> <<Eval(tok).num>>]

\* the value the mapping must hold for a line of more than two tokens
ListOf(toks) ==
    [kind |-> "list", nums |-> [i \in 1..(Len(toks) - 1) |-> Eval(toks[i + 1]).num]]

\* C7: a key line (key not excluded by the FILTER/SENS rule) with exactly
\* two tokens, the second a number, maps the key to that number as a scalar;
\* with more than two tokens, all numbers, it maps the key to the sequence
\* of the numbers in line order; a token without decimal point and exponent
\* is an integer.  'KEY 3.5' gives 3.5, 'KEY 1 3.5' gives [1, 3.5] and 'KEY 1 2 3'
\* gives [1, 2, 3].
C7_ScalarOrSequence ==
    (lineno >= 1 /\ ~BlankLine(CurLine) /\ FirstCharIsLetter(CurLine)
         /\ ~HasUpperFilterOrSens(Toks(CurLine)[1])) =>
        LET toks == Toks(CurLine)
            k == toks[1]
        IN /\ (Len(toks) = 2 /\ IsNumber(toks[2])) =>
                  /\ pstate # "error"
                  /\ k \in DOMAIN content
                  /\ content[k] = ScalarOf(toks[2])
           /\ (Len(toks) > 2 /\ \A i \in 2..Len(toks) : IsNumber(toks[i])) =>
                  /\ pstate # "error"
                  /\ k \in DOMAIN content
                  /\ content[k] = ListOf(toks)
                  /\ Len(content[k].nums) = Len(toks) - 1
           /\ (k \in DOMAIN content /\ pstate # "error") =>
                  \A i \in 1..Len(content[k].nums) :
                      PlainDigits(toks[i + 1]) => content[k].nums[i].t = "int"
           /\ (toks = <<K_KEY, T_3p5>>) =>
                  content[k] = [kind |-> "scalar",
                                nums |-> <<[t |-> "float", m |-> 35, e |-> 0 - 1]>>]
           /\ (toks = <<K_KEY, T_1, T_3p5>>) =>
                  content[k] = [kind |-> "list",
                                nums |-> <<[t |-> "int", m |-> 1, e |-> 0],
                                           [t |-> "float", m |-> 35, e |-> 0 - 1]>>]
           /\ (CurLine = L_ints) =>
                  content[k] = [kind |-> "list",
                                nums |-> <<[t |-> "int", m |-> 1, e |-> 0],
                                           [t |-> "int", m |-> 2, e |-> 0],
                                           [t |-> "int", m |-> 3, e |-> 0]>>]

\* after 'filter_A 1' and 'KEY 1 3.5' the mapping holds a scalar and a list
C7_Witness ==
    /\ lineno = 2
    /\ lines[1] = L_filter_l
    /\ Toks(lines[2]) = <<K_KEY, T_1, T_3p5>>
    /\ pstate = "reading"
    /\ DOMAIN content = {K_filter_A, K_KEY}
    /\ content[K_filter_A].kind = "scalar"
    /\ content[K_KEY].kind = "list"

\* C10, as stated: a line is skipped (no key, no entry, no error) exactly
\* when it is blank or its first character that is not white space is not a
\* letter; every other line is tokenized and its first token is the key.
C10_FirstNonSpace ==
    [][lineno' = lineno + 1 =>
          IF BlankLine(lines[lineno + 1])
                 \/ ~FirstNonSpaceIsLetter(lines[lineno + 1])
          THEN key' = None /\ content' = content /\ pstate' = pstate
          ELSE key' = Toks(lines[lineno + 1])[1]]_vars

\* C10, as amended: a line is skipped (no key, no entry, no error) exactly
\* when it is blank or its first character is not a letter, so a key line
\* with white space before the letter is skipped too; every other line is
\* tokenized and its first token is the key.
C10_FirstChar ==
    [][lineno' = lineno + 1 =>
          IF BlankLine(lines[lineno + 1])
                 \/ ~FirstCharIsLetter(lines[lineno + 1])
          THEN key' = None /\ content' = content /\ pstate' = pstate
          ELSE key' = Toks(lines[lineno + 1])[1]]_vars

\* 'KEY 1' was stored, then the indented '  KEY 1' was skipped
C10_Witness ==
    /\ lineno = 2
    /\ Toks(lines[1]) = <<K_KEY, T_1>>
    /\ lines[2] = L_indent
    /\ key = None
    /\ pstate = "reading"
    /\ DOMAIN content = {K_KEY}

(***************************************************************************)
(* Vocabulary of the properties of the beam grouper.                       *)
(***************************************************************************)
AllLetters(s) == \A i \in 1..Len(s) : IsLetter(s[i])

\* the key has the form <letters>_<one alphanumeric char>_<word chars>
MatchesBeamPattern(k) ==
    LET segs == SplitOn(k, "_")
    IN /\ Len(segs) >= 3
       /\ AllLetters(segs[1])
       /\ Len(segs[2]) = 1
       /\ IsAlnum(segs[2][1])
       /\ IF Len(segs[3]) >= 1 THEN IsWord(segs[3][1]) ELSE Len(segs) > 3

\* the beam token of a beam-pattern key, as it appears in the key
BeamToken(k) == SplitOn(k, "_")[2]

RECURSIVE RemoveOnceFrom(_, _, _)
RemoveOnceFrom(s, pat, i) ==
    IF i > Len(s) THEN s
    ELSE IF StartsAt(s, i, pat)
         THEN SubSeq(s, 1, i - 1) \o SubSeq(s, i + Len(pat), Len(s))
         ELSE RemoveOnceFrom(s, pat, i + 1)

\* s with the first occurrence of pat removed
RemoveOnce(s, pat) == RemoveOnceFrom(s, pat, 1)

\* the stripped key: the raw key with '_<token as it appeared>' removed once
StrippedKey(k) == RemoveOnce(k, <<"_">> \o BeamToken(k))

Suffix0 == <<"_", "0">>
Suffix1 == <<"_", "1">>

EndsWith(k, suf) == Len(k) >= Len(suf) /\ StartsAt(k, Len(k) - Len(suf) + 1, suf)

\* the names n for which n_0 or n_1 is a key of d
RangeNames(d) ==
    {SubSeq(d[i].k, 1, Len(d[i].k) - 2) :
         i \in {j \in 1..Len(d) : EndsWith(d[j].k, Suffix0) \/ EndsWith(d[j].k, Suffix1)}}

HasBoth(d, n) == DictHas(d, n \o Suffix0) /\ DictHas(d, n \o Suffix1)
HasOne(d, n) == DictHas(d, n \o Suffix0) # DictHas(d, n \o Suffix1)
TheOne(d, n) == IF DictHas(d, n \o Suffix0) THEN n \o Suffix0 ELSE n \o Suffix1

\* n is collapsed in d2 to the pair of its two values in d
Collapsed(d, d2, n) ==
    /\ DictHas(d2, n)
    /\ DictGet(d2, n) = <<DictGet(d, n \o Suffix0)[1], DictGet(d, n \o Suffix1)[1]>>
    /\ ~DictHas(d2, n \o Suffix0)
    /\ ~DictHas(d2, n \o Suffix1)

\* the sub-mapping of the beam the range pass is at, before and after
BeamBefore == rdict[bidx + 1].v
BeamAfter == rdict'[bidx + 1].v

(***************************************************************************)
(* Properties of the beam grouper (specification SpecGroup).               *)
(***************************************************************************)
\* C2: when the range pass has handled a beam without error, every name
\* whose stripped keys name_0 and name_1 were both in the beam's sub-mapping
\* is mapped to (value of name_0, value of name_1), and name_0 and name_1
\* are gone.
C2_PairCollapsed ==
    [][(bidx' = bidx + 1 /\ gstate' # "error") =>
          \A n \in RangeNames(BeamBefore) :
              HasBoth(BeamBefore, n) => Collapsed(BeamBefore, BeamAfter, n)]_vars

\* C3: when only one of name_0 / name_1 is in a beam's sub-mapping, the
\* range pass raises no error, leaves that key with its value and creates
\* no entry for name, whichever beams came before.
C3_SingleSidedKept ==
    [][bidx' = bidx + 1 =>
          \A n \in RangeNames(BeamBefore) :
              HasOne(BeamBefore, n) =>
                  /\ gstate' # "error"
                  /\ DictHas(BeamAfter, TheOne(BeamBefore, n))
                  /\ DictGet(BeamAfter, TheOne(BeamBefore, n))
                         = DictGet(BeamBefore, TheOne(BeamBefore, n))
                  /\ (~DictHas(BeamBefore, n) => ~DictHas(BeamAfter, n))]_vars

\* C4: a beam-pattern key whose beam token is a lower-case letter is put in
\* the group of the upper-cased token, under the raw key with
\* '_<token as it appeared>' removed.
C4_LowerCaseToken ==
    [][kidx' = kidx + 1 =>
          LET k == keydict[kidx + 1].k
          IN (MatchesBeamPattern(k) /\ IsLower(BeamToken(k)[1])) =>
                 /\ DictHas(rdict', Upper(BeamToken(k)))
                 /\ DictHas(DictGet(rdict', Upper(BeamToken(k))), StrippedKey(k))
                 /\ DictGet(DictGet(rdict', Upper(BeamToken(k))), StrippedKey(k))
                        = keydict[kidx + 1].v]_vars

\* C5: the stripped key of a beam-pattern key (token a digit or an
\* upper-case letter) is the raw key with '_<token>' removed exactly once,
\* also when '_<token>' occurs again later in the key: A_1_1 is stored in
\* beam 1 as A_1.
C5_RemovedOnce ==
    [][kidx' = kidx + 1 =>
          LET k == keydict[kidx + 1].k
          IN (MatchesBeamPattern(k) /\ ~IsLower(BeamToken(k)[1])) =>
                 /\ DictHas(rdict', BeamToken(k))
                 /\ DictHas(DictGet(rdict', BeamToken(k)), StrippedKey(k))
                 /\ DictGet(DictGet(rdict', BeamToken(k)), StrippedKey(k))
                        = keydict[kidx + 1].v]_vars

\* the flat key at position j matches the beam pattern
FromBeamKey(j) == MatchesBeamPattern(keydict[j].k)

C9_ExactName ==
    [][(bidx' = bidx + 1 /\ gstate' # "error") =>
          \A n1, n2 \in RangeNames(BeamBefore) :
              (n1 # n2 /\ HasBoth(BeamBefore, n1) /\ HasBoth(BeamBefore, n2)) =>
                  /\ DictHas(BeamAfter, n1)
                  /\ DictHas(BeamAfter, n2)
                  /\ DictGet(BeamAfter, n1)
                         = <<DictGet(BeamBefore, n1 \o Suffix0)[1],
                             DictGet(BeamBefore, n1 \o Suffix1)[1]>>
                  /\ DictGet(BeamAfter, n2)
                         = <<DictGet(BeamBefore, n2 \o Suffix0)[1],
                             DictGet(BeamBefore, n2 \o Suffix1)[1]>>]_vars

=============================================================================
